---- MODULE Spec2Model ----
\* A model of MiKan (src/main.py): the date helpers, the colour coding, the
\* project document with its validation, and the window handlers that edit it.
EXTENDS Integers, Sequences, FiniteSets, TLC

VARIABLES
    data,      \* Project._data: the in-memory document
    file,      \* content of the project file Project._path
    mainWin,   \* TRUE iff Project._window_main is not None
    wins,      \* the other open Tk windows (edit dialog, hidden list, text view, ...)
    op,        \* the handler that ran last and how it ended
    hist,      \* history: successful adds since an empty document was loaded, -1 if not applicable
    frame      \* the pure helper called last, with its arguments and its result

vars == <<data, file, mainWin, wins, op, hist, frame>>
sessionVars == <<data, file, mainWin, wins, op, hist>>

\* ---------------------------------------------------------------- bounds
MaxDay == 14        \* dates are the day ordinals 1..MaxDay (ordinal 1 is a Monday)
MaxSize == 8        \* largest size passed to list_date
MaxTasks == 2       \* task dialogs: the task map grows to at most this many entries
MaxSessionTasks == 1 \* whole session: the task map grows to at most this many entries
MaxWindows == 2     \* windows open besides the main window
MaxLines == 3       \* lines typed into the steps field of the create dialog

\* ---------------------------------------------------------------- constants
KEY_HIDDEN == "hidden"
LEVELS == <<"critical", "high", "normal", "low">>
\* WORKING_DAYS[k + 1] is the entry for iso weekday k of the source's tuple
WORKING_DAYS == <<FALSE, TRUE, TRUE, TRUE, TRUE, TRUE, FALSE, FALSE>>

Range(s) == {s[j] : j \in 1..Len(s)}

\* ---------------------------------------------------------------- dates
\* A datetime is a day ordinal and a time of day (0 is midnight); a date
\* string is either well formed, naming a day, or malformed.
None == [none |-> TRUE]
DateTime(o, t) == [ord |-> o, tod |-> t]
DateStr(o) == [valid |-> TRUE, ord |-> o]
BadDateStr == [valid |-> FALSE, ord |-> 0]

\* date.isocalendar()[2]: 1 is Monday, 7 is Sunday
isoweekday(date) == ((date.ord + 6) % 7) + 1

parse_date(string) ==
    IF string.valid THEN DateTime(string.ord, 0) ELSE None

format_date(date) == DateStr(date.ord)

\* a variant that counts the day it leaves instead of the day it reaches
RECURSIVE distance_loop_closed_start(_, _, _)
distance_loop_closed_start(start, end, i) ==
    IF start.ord < end.ord
    THEN distance_loop_closed_start(
             DateTime(start.ord + 1, 0), end,
             i + (IF WORKING_DAYS[isoweekday(start) + 1] THEN 1 ELSE 0))
    ELSE i

RECURSIVE distance_loop(_, _, _)
distance_loop(start, end, i) ==
    IF start.ord < end.ord
    THEN LET next == DateTime(start.ord + 1, 0)
         IN distance_loop(next, end,
                          i + (IF WORKING_DAYS[isoweekday(next) + 1] THEN 1 ELSE 0))
    ELSE i

distance_date(start, end) ==
    LET s == DateTime(start.ord, 0)
        e == DateTime(end.ord, 0)
    IN IF s.ord > e.ord THEN -1 ELSE distance_loop(s, e, 0)

rule(level) ==
    CASE level = "critical" -> "#B22222"
      [] level = "high"     -> "#FFA500"
      [] level = "normal"   -> "#FDF5E6"
      [] level = "low"      -> "#9ACD32"

Raised(e) == [exc |-> e, background |-> "", border |-> ""]

encode_color(task, today) ==
    IF task.level \notin Range(LEVELS) THEN Raised("KeyError")
    ELSE LET background == rule(task.level)
             deadline == parse_date(task.deadline)
         IN IF deadline = None THEN Raised("AttributeError")
            ELSE LET interval == distance_date(today, deadline)
                     border == IF interval <= 1 THEN "#B22222"
                               ELSE IF interval <= 3 THEN "#FFA500"
                               ELSE background
                 IN [exc |-> "none", background |-> background, border |-> border]

RECURSIVE list_loop(_, _, _)
list_loop(n, date, result) ==
    IF n = 0 THEN result
    ELSE list_loop(n - 1, DateTime(date.ord + 1, date.tod),
                   IF WORKING_DAYS[isoweekday(date) + 1]
                   THEN Append(result, format_date(date)) ELSE result)

list_date(size, now) == list_loop(size, now, <<>>)

\* ---------------------------------------------------------------- strings
\* Titles and descriptions are sequences of characters.
Whitespace == {" ", "\n"}

RECURSIVE lstrip(_)
lstrip(s) == IF s # <<>> /\ Head(s) \in Whitespace THEN lstrip(Tail(s)) ELSE s

RECURSIVE rstrip(_)
rstrip(s) ==
    IF s # <<>> /\ s[Len(s)] \in Whitespace THEN rstrip(SubSeq(s, 1, Len(s) - 1)) ELSE s

strip(s) == rstrip(lstrip(s))

\* Text.get('1.0', tkinter.END): what was typed, followed by a newline
get(typed) == Append(typed, "\n")

\* ---------------------------------------------------------------- dicts
\* A dict is the sequence of its items in insertion order; each key occurs once.
\* A key is an int or a str holding the decimal numeral of v.
IntKey(n) == [kind |-> "int", v |-> n]
StrKey(n) == [kind |-> "str", v |-> n]
Item(k, t) == [k |-> k, t |-> t]

Keys(d) == {d[j].k : j \in 1..Len(d)}
Get(d, k) == d[CHOOSE j \in 1..Len(d) : d[j].k = k].t
Put(d, k, t) ==
    IF k \in Keys(d)
    THEN [j \in 1..Len(d) |-> IF d[j].k = k THEN Item(k, t) ELSE d[j]]
    ELSE Append(d, Item(k, t))

\* the dict built from a list of items: a repeated key keeps its first place
\* and takes its last value
RECURSIVE DictOf(_, _)
DictOf(items, d) ==
    IF items = <<>> THEN d
    ELSE DictOf(Tail(items), Put(d, Head(items).k, Head(items).t))

\* ---------------------------------------------------------------- JSON
\* A text either fails to parse or is a JSON object with the three members of
\* a project; the members of its "tasks" object are listed in order, and an
\* object's keys are always strings.
Garbage == [parses |-> FALSE, name |-> "", steps |-> <<>>, tasks |-> <<>>]

\* json.dumps(self._data, indent=' '): an int key is written as its numeral
dumps(d) ==
    [parses |-> TRUE, name |-> d.name, steps |-> d.steps,
     tasks |-> [j \in 1..Len(d.tasks) |->
                   Item(StrKey(d.tasks[j].k.v), d.tasks[j].t)]]

\* json.loads(text); only called on texts that parse
loads(text) ==
    [name |-> text.name, steps |-> text.steps, tasks |-> DictOf(text.tasks, <<>>)]

\* {int(k): v for k, v in tasks.items()}
int_keys(tasks) ==
    DictOf([j \in 1..Len(tasks) |-> Item(IntKey(tasks[j].k.v), tasks[j].t)], <<>>)

\* ---------------------------------------------------------------- _check
\* data['tasks'].items(): the task records
Tasks(d) == {d.tasks[j].t : j \in 1..Len(d.tasks)}

StepOk(d, task) == task.step \in Range(d.steps) \/ task.step = KEY_HIDDEN
TitleOk(task) == task.title # <<>>
TextOk(task) == task.text # <<>>
DeadlineOk(task) == parse_date(task.deadline) # None
LevelOk(task) == task.level \in Range(LEVELS)

\* the message of the first assertion that fails, "ok" if none does
_check(d) ==
    IF d.name = "" THEN "name in project not valid"
    ELSE IF d.steps = <<>> THEN "steps in project not valid"
    ELSE IF ~(\A t \in Tasks(d) : StepOk(d, t)) THEN "tasks have invalid step"
    ELSE IF ~(\A t \in Tasks(d) : TitleOk(t)) THEN "tasks have invalid title"
    ELSE IF ~(\A t \in Tasks(d) : TextOk(t)) THEN "tasks have invalid text"
    ELSE IF ~(\A t \in Tasks(d) : DeadlineOk(t)) THEN "tasks have invalid deadline"
    ELSE IF ~(\A t \in Tasks(d) : LevelOk(t)) THEN "tasks have invalid level"
    ELSE "ok"

\* ---------------------------------------------------------------- inputs
Task(step, title, text, level, deadline) ==
    [step |-> step, title |-> title, text |-> text, level |-> level,
     deadline |-> deadline]

Doc(name, steps, items) ==
    [parses |-> TRUE, name |-> name, steps |-> steps, tasks |-> items]

GoodTask(step) == Task(step, <<"t">>, <<"d">>, "normal", DateStr(5))

\* project files a session starts from: a new project, and one with a task
InitFiles ==
    { Doc("p", <<"a">>, <<>>),
      Doc("p", <<"a">>, <<Item(StrKey(0), GoodTask("a"))>>) }

\* project files with other step lists that load
TaskFiles ==
    { Doc("p", <<"a", "b">>, <<>>),
      Doc("p", <<"a", "b">>, <<Item(StrKey(0), GoodTask("b"))>>),
      Doc("p", <<"a">>, <<>>),
      Doc("q", <<"a", "a">>, <<Item(StrKey(0), GoodTask("a"))>>),
      Doc("q", <<"hidden", "b">>, <<Item(StrKey(0), GoodTask("hidden"))>>),
      Doc("q", <<"a", "b", "a">>, <<Item(StrKey(1), GoodTask("b"))>>) }

\* what the user leaves in a text view, besides the text it showed
UserTexts ==
    { Garbage,
      Doc("", <<"a">>, <<>>),
      Doc("p", <<>>, <<>>),
      Doc("p", <<"a">>, <<Item(StrKey(0), GoodTask("c"))>>),
      Doc("p", <<"a">>,
          <<Item(StrKey(0), Task("a", <<>>, <<"d">>, "normal", DateStr(5)))>>),
      Doc("p", <<"a">>,
          <<Item(StrKey(0), Task("a", <<"t">>, <<>>, "normal", DateStr(5)))>>),
      Doc("p", <<"a">>,
          <<Item(StrKey(0), Task("a", <<"t">>, <<"d">>, "urgent", DateStr(5)))>>),
      Doc("p", <<"a">>,
          <<Item(StrKey(0), Task("a", <<"t">>, <<"d">>, "normal", BadDateStr))>>),
      Doc("p", <<"a">>, <<>>) }

\* what the user types into the edit dialog
TypedTitles == { <<"t">>, <<" ">>, <<"t", "\n", "u">> }
TypedTexts == { <<"d">>, <<>> }
UserLevels == { "normal" }
UserDeadlines == { DateStr(5), BadDateStr }

\* ---------------------------------------------------------------- windows
NoText == Garbage

\* opened is history: the in-memory document when a text view was opened
Window(kind, idx, btns, ids, raw, init, opened) ==
    [kind |-> kind, idx |-> idx, btns |-> btns, ids |-> ids, raw |-> raw,
     init |-> init, opened |-> opened]

NoDoc == [name |-> "", steps |-> <<>>, tasks |-> <<>>]
EditDialog(idx, btns) == Window("edit", idx, btns, {}, FALSE, NoText, NoDoc)
HiddenWindow(ids) == Window("hidden", IntKey(-1), {}, ids, FALSE, NoText, NoDoc)
TextView(raw, init, opened) == Window("text", IntKey(-1), {}, {}, raw, init, opened)
DeleteDialog == Window("delete", IntKey(-1), {}, {}, FALSE, NoText, NoDoc)
WarningDialog == Window("warning", IntKey(-1), {}, {}, FALSE, NoText, NoDoc)

\* op is history: the handler that ran last, whether it ran to its end
\* (ok), whether it compared the document with the file (checked), and the
\* text it read from a text view (arg)
OpArg(name, ok, checked, arg) ==
    [name |-> name, ok |-> ok, checked |-> checked, arg |-> arg]
Op(name, ok, checked) == OpArg(name, ok, checked, NoText)

Idle == [fn |-> "none"]

\* ---------------------------------------------------------------- edit_task
Button(label, i) == [label |-> label, i |-> i]

\* list.index: the 0-based position of the first occurrence
index(steps, x) ==
    (CHOOSE j \in 1..Len(steps) :
        steps[j] = x /\ \A k \in 1..(j - 1) : steps[k] # x) - 1

\* (steps + [KEY_HIDDEN])[i]
step_to_be(steps, i) == Append(steps, KEY_HIDDEN)[i + 1]

\* a variant that forgets the step past the last one
Buttons_no_hide(steps, step) ==
    IF step # KEY_HIDDEN
    THEN LET i_step == index(steps, step)
         IN {Button("update", i_step)}
            \cup (IF i_step > 0 THEN {Button("back", i_step - 1)} ELSE {})
            \cup (IF i_step + 1 < Len(steps)
                  THEN {Button("forward", i_step + 1)} ELSE {})
    ELSE {Button("unhide", 0)}

\* the buttons edit_task packs for a task at the given step
Buttons(steps, step) ==
    IF step # KEY_HIDDEN
    THEN LET i_step == index(steps, step)
         IN {Button("update", i_step)}
            \cup (IF i_step > 0 THEN {Button("back", i_step - 1)} ELSE {})
            \cup (IF i_step + 1 <= Len(steps)
                  THEN {Button("forward", i_step + 1)} ELSE {})
    ELSE {Button("unhide", 0)}

_get_tasks_in_step(d, step) ==
    {d.tasks[j].k : j \in {n \in 1..Len(d.tasks) : d.tasks[n].t.step = step}}

\* edit_task(idx): the dialog it opens, or the empty set when it raises
\* (idx < 0 on a str key, or a key that is not in the map)
edit_task(idx) ==
    IF idx.kind # "int" THEN {}
    ELSE IF idx.v < 0 THEN {EditDialog(idx, {Button("add", 0)})}
    ELSE IF idx \notin Keys(data.tasks) THEN {}
    ELSE {EditDialog(idx, Buttons(data.steps, Get(data.tasks, idx).step))}

\* ---------------------------------------------------------------- edit
Max(S) == CHOOSE x \in S : \A y \in S : y <= x

\* max(self._data['tasks'].keys()) + 1 is defined on int keys only
can_next_idx(tasks) == \A k \in Keys(tasks) : k.kind = "int"
\* a variant that numbers a new task by the size of the map
next_idx_by_count(tasks) == IntKey(Len(tasks))

next_idx(tasks) ==
    IF tasks # <<>> THEN IntKey(Max({k.v : k \in Keys(tasks)}) + 1) ELSE IntKey(0)

\* how edit(idx, i_step) ends: "raise", "ignore" (the dialog stays) or "store"
edit_outcome(idx, i_step, title, level, deadline) ==
    IF "\n" \in Range(title) THEN "raise"
    ELSE IF idx.v < 0 /\ ~can_next_idx(data.tasks) THEN "raise"
    ELSE IF ~(parse_date(deadline) # None /\ level \in Range(LEVELS)) THEN "ignore"
    ELSE IF i_step > Len(data.steps) THEN "raise"
    ELSE "store"

\* a variant that stores a map holding the edited task only
edit_alone(idx, i_step, title, text, level, deadline) ==
    LET k == IF idx.v < 0 THEN next_idx(data.tasks) ELSE idx
    IN <<Item(k, Task(step_to_be(data.steps, i_step), title, text, level, deadline))>>

\* the task map edit(idx, i_step) stores
edit(idx, i_step, title, text, level, deadline) ==
    LET k == IF idx.v < 0 THEN next_idx(data.tasks) ELSE idx
    IN Put(data.tasks, k,
           Task(step_to_be(data.steps, i_step), title, text, level, deadline))

\* one window of each kind is modelled at a time
Room(kind) == Cardinality(wins) < MaxWindows /\ \A w \in wins : w.kind # kind

\* a button of an edit dialog is pressed
Press(w, b, typedTitle, typedText, level, deadline) ==
    LET title == strip(get(typedTitle))
        text == strip(get(typedText))
        outcome == edit_outcome(w.idx, b.i, title, level, deadline)
    IN /\ w.kind = "edit" /\ b \in w.btns
       /\ IF outcome = "store"
          THEN /\ data' = [data EXCEPT
                              !.tasks = edit(w.idx, b.i, title, text, level, deadline)]
               /\ wins' = wins \ {w}
               /\ mainWin' = TRUE
               /\ op' = Op(b.label, TRUE, FALSE)
               /\ hist' = IF b.label = "add" /\ hist >= 0 THEN hist + 1 ELSE hist
          ELSE /\ op' = Op(b.label, FALSE, FALSE)
               /\ UNCHANGED <<data, wins, mainWin, hist>>
       /\ UNCHANGED <<file, frame>>

\* the edit dialog is closed
CloseDialog(w) ==
    /\ w.kind = "edit"
    /\ wins' = wins \ {w}
    /\ mainWin' = TRUE
    /\ op' = Op("close_dialog", TRUE, FALSE)
    /\ UNCHANGED <<data, file, hist, frame>>

\* ---------------------------------------------------------------- main window
\* the keys of the task buttons display() draws
Shown == UNION {_get_tasks_in_step(data, data.steps[j]) : j \in 1..Len(data.steps)}

ClickNew ==
    /\ mainWin /\ Room("edit")
    /\ mainWin' = FALSE
    /\ wins' = wins \cup edit_task(IntKey(-1))
    /\ op' = Op("new", TRUE, FALSE)
    /\ UNCHANGED <<data, file, hist, frame>>

ClickTask(k) ==
    /\ mainWin /\ Room("edit")
    /\ k \in Shown
    /\ mainWin' = FALSE
    /\ wins' = wins \cup edit_task(k)
    /\ op' = Op("task", edit_task(k) # {}, FALSE)
    /\ UNCHANGED <<data, file, hist, frame>>

save == file' = [exists |-> TRUE, text |-> dumps(data)]

Save ==
    /\ mainWin
    /\ save
    /\ op' = Op("save", TRUE, FALSE)
    /\ UNCHANGED <<data, mainWin, wins, hist, frame>>

\* the backup file is not part of the state
Backup ==
    /\ mainWin
    /\ op' = Op("backup", TRUE, FALSE)
    /\ UNCHANGED <<data, file, mainWin, wins, hist, frame>>

ClickDelete ==
    /\ mainWin /\ Room("delete")
    /\ mainWin' = FALSE
    /\ wins' = wins \cup {DeleteDialog}
    /\ op' = Op("delete", TRUE, FALSE)
    /\ UNCHANGED <<data, file, hist, frame>>

ClickHidden ==
    /\ mainWin /\ Room("hidden")
    /\ mainWin' = FALSE
    /\ wins' = wins \cup {HiddenWindow(_get_tasks_in_step(data, KEY_HIDDEN))}
    /\ op' = Op("hidden", TRUE, FALSE)
    /\ UNCHANGED <<data, file, hist, frame>>

\* disp_text: 'raw' shows the file, 'tmp' the in-memory document; when the
\* file is missing the window is left with an empty text field
disp_text(disp_updated) ==
    /\ mainWin /\ Room("text")
    /\ wins' = wins \cup
         {TextView(~disp_updated,
                   IF disp_updated THEN dumps(data)
                   ELSE IF file.exists THEN file.text ELSE Garbage,
                   data)}
    /\ op' = Op(IF disp_updated THEN "tmp" ELSE "raw",
                disp_updated \/ file.exists, FALSE)
    /\ UNCHANGED <<data, file, mainWin, hist, frame>>

\* is the serialized document different from the file
isDirty == dumps(data) # file.text

\* the main window is closed: check_on_close(), then reset()
CloseMain ==
    /\ mainWin
    /\ IF file.exists
       THEN /\ isDirty => Room("warning")
            /\ wins' = IF isDirty THEN wins \cup {WarningDialog} ELSE wins
            /\ mainWin' = FALSE
            /\ op' = Op("close_main", TRUE, TRUE)
       ELSE /\ op' = Op("close_main", FALSE, FALSE)
            /\ UNCHANGED <<wins, mainWin>>
    /\ UNCHANGED <<data, file, hist, frame>>

\* ---------------------------------------------------------------- hidden list
ClickHiddenTask(w, k) ==
    /\ w.kind = "hidden" /\ k \in w.ids
    /\ Room("edit")
    /\ wins' = (wins \ {w}) \cup edit_task(k)
    /\ op' = Op("hidden_task", edit_task(k) # {}, FALSE)
    /\ UNCHANGED <<data, file, mainWin, hist, frame>>

CloseHidden(w) ==
    /\ w.kind = "hidden"
    /\ wins' = wins \ {w}
    /\ mainWin' = TRUE
    /\ op' = Op("close_hidden", TRUE, FALSE)
    /\ UNCHANGED <<data, file, hist, frame>>

\* ---------------------------------------------------------------- text view
\* a variant that takes every text that parses
accepts_unchecked(text) == text.parses

\* does on_close accept the text: json.loads succeeds and _check passes
accepts(text) == text.parses /\ _check(loads(text)) = "ok"

\* disp_text.on_close with the text left in the view
on_close(w, text) ==
    /\ w.kind = "text"
    /\ IF accepts(text)
       THEN /\ data' = loads(text)
            /\ mainWin' = TRUE
            /\ hist' = -1
       ELSE UNCHANGED <<data, mainWin, hist>>
    /\ wins' = wins \ {w}
    /\ op' = OpArg(IF w.raw THEN "close_raw" ELSE "close_tmp", accepts(text),
                   FALSE, text)
    /\ UNCHANGED <<file, frame>>

\* ---------------------------------------------------------------- delete
PressDelete(w) ==
    /\ w.kind = "delete"
    /\ IF file.exists
       THEN /\ file' = [exists |-> FALSE, text |-> Garbage]
            /\ wins' = wins \ {w}
            /\ op' = Op("delete_project", TRUE, FALSE)
       ELSE /\ op' = Op("delete_project", FALSE, FALSE)
            /\ UNCHANGED <<file, wins>>
    /\ UNCHANGED <<data, mainWin, hist, frame>>

CloseDelete(w) ==
    /\ w.kind = "delete"
    /\ wins' = wins \ {w}
    /\ op' = Op("close_delete", TRUE, FALSE)
    /\ UNCHANGED <<data, file, mainWin, hist, frame>>

\* ---------------------------------------------------------------- warning
PressSave(w) ==
    /\ w.kind = "warning"
    /\ save
    /\ wins' = wins \ {w}
    /\ op' = Op("warning_save", TRUE, FALSE)
    /\ UNCHANGED <<data, mainWin, hist, frame>>

PressDiscard(w) ==
    /\ w.kind = "warning"
    /\ wins' = wins \ {w}
    /\ op' = Op("warning_discard", TRUE, FALSE)
    /\ UNCHANGED <<data, file, mainWin, hist, frame>>

\* ---------------------------------------------------------------- session
\* Project.__init__: read the file, turn the keys into ints, check
load(text) ==
    [name |-> text.name, steps |-> text.steps, tasks |-> int_keys(loads(text).tasks)]

\* Project(name=name).display() on a project file that loads
Start(files) ==
    /\ \E f \in files :
          /\ _check(load(f)) = "ok"
          /\ file = [exists |-> TRUE, text |-> f]
          /\ data = load(f)
          /\ hist = IF load(f).tasks = <<>> THEN 0 ELSE -1
    /\ mainWin = TRUE
    /\ wins = {}
    /\ op = Op("init", TRUE, FALSE)
    /\ frame = Idle

KeyUniverse == {IntKey(n) : n \in 0..MaxTasks} \cup {StrKey(n) : n \in 0..MaxTasks}

\* the task dialogs: new, a task's button, the hidden list, the edit dialog
TaskStep(cap, titles, texts, levels, deadlines) ==
    \/ Len(data.tasks) < cap /\ ClickNew
    \/ \E k \in KeyUniverse : ClickTask(k)
    \/ ClickHidden
    \/ \E w \in wins : \E b \in w.btns, tt \in titles, td \in texts,
          l \in levels, dl \in deadlines :
             Press(w, b, tt, td, l, dl) /\ Len(data'.tasks) <= cap
    \/ \E w \in wins : CloseDialog(w)
    \/ \E w \in wins : \E k \in w.ids : ClickHiddenTask(w, k)
    \/ \E w \in wins : CloseHidden(w)

\* ---- the task dialogs on a loaded project
InitTasks == Start(TaskFiles)
NextTasks == TaskStep(MaxTasks, TypedTitles, TypedTexts, UserLevels, UserDeadlines)
SpecTasks == InitTasks /\ [][NextTasks]_vars

\* ---- a whole session
Init == Start(InitFiles)

Next ==
    \/ TaskStep(MaxSessionTasks, {<<"t">>}, {<<"d">>}, {"normal"}, {DateStr(5)})
    \/ Save
    \/ Backup
    \/ ClickDelete
    \/ disp_text(FALSE)
    \/ disp_text(TRUE)
    \/ CloseMain
    \/ \E w \in wins : \E text \in UserTexts \cup {w.init} : on_close(w, text)
    \/ \E w \in wins : PressDelete(w)
    \/ \E w \in wins : CloseDelete(w)
    \/ \E w \in wins : PressSave(w)
    \/ \E w \in wins : PressDiscard(w)

Spec == Init /\ [][Next]_vars

\* ---- the text views next to the task dialogs, the project file left alone
InitViews == Start(InitFiles)

NextViews ==
    \/ TaskStep(MaxSessionTasks, {<<"t">>}, {<<"d">>}, {"normal"}, {DateStr(5)})
    \/ disp_text(FALSE)
    \/ disp_text(TRUE)
    \/ \E w \in wins : \E text \in UserTexts \cup {w.init} : on_close(w, text)

SpecViews == InitViews /\ [][NextViews]_vars

\* ---------------------------------------------------------------- helpers
\* ---- the date helpers and the colour coding, called on their own
DateTimes == {DateTime(o, t) : o \in 1..MaxDay, t \in {0, 1}}
DateStrs == {DateStr(o) : o \in 1..MaxDay} \cup {BadDateStr}
AnyLevels == Range(LEVELS) \cup {"urgent"}

CallDistance ==
    /\ frame = Idle
    /\ \E start \in DateTimes, end \in DateTimes :
          frame' = [fn |-> "distance_date", start |-> start, end |-> end,
                    ret |-> distance_date(start, end)]
    /\ UNCHANGED sessionVars

CallListDate ==
    /\ frame = Idle
    /\ \E size \in 0..MaxSize, now \in DateTimes :
          frame' = [fn |-> "list_date", size |-> size, now |-> now,
                    ret |-> list_date(size, now)]
    /\ UNCHANGED sessionVars

CallEncodeColor ==
    /\ frame = Idle
    /\ \E level \in AnyLevels, deadline \in DateStrs, today \in DateTimes :
          LET task == Task("a", <<"t">>, <<"d">>, level, deadline)
          IN frame' = [fn |-> "encode_color", task |-> task, today |-> today,
                       ret |-> encode_color(task, today)]
    /\ UNCHANGED sessionVars

\* the caller takes the result
Return ==
    /\ frame # Idle
    /\ frame' = Idle
    /\ UNCHANGED sessionVars

InitHelpers == Start({Doc("p", <<"a">>, <<>>)})
NextHelpers == CallDistance \/ CallListDate \/ CallEncodeColor \/ Return
SpecHelpers == InitHelpers /\ [][NextHelpers]_vars

\* ---------------------------------------------------------------- init_project
\* A typed text is a sequence of units: a blank, a newline or a word; the
\* names and the step lines typed here hold at most one word.
CreateDialog == Window("create", IntKey(-1), {}, {}, FALSE, NoText, NoDoc)
ListWindow == Window("list", IntKey(-1), {}, {}, FALSE, NoText, NoDoc)

\* str.split('\n'), cur being the line read so far
RECURSIVE split(_, _)
split(s, cur) ==
    IF s = <<>> THEN <<cur>>
    ELSE IF Head(s) = "\n" THEN <<cur>> \o split(Tail(s), <<>>)
    ELSE split(Tail(s), Append(cur, Head(s)))

\* the string of a text of at most one word
join(units) == IF units = <<>> THEN "" ELSE units[1]

KeptStep(line) == line # <<>> /\ join(line) # KEY_HIDDEN

\* the steps create() writes for the text of the steps field
create_steps(typed) ==
    LET lines == split(get(typed), <<>>)
        stripped == [j \in 1..Len(lines) |-> strip(lines[j])]
        kept == SelectSeq(stripped, KeptStep)
    IN [j \in 1..Len(kept) |-> join(kept[j])]

\* what the user types into the create dialog
TypedNames == { <<"p">>, <<"q", " ">>, <<" ">>, <<"p", "\n", "q">> }
StepLines == { <<"a">>, <<" ", "b">>, <<>>, <<" ">>, <<"hidden">> }

RECURSIVE StepTexts(_)
StepTexts(n) ==
    IF n = 0 THEN {<<>>}
    ELSE IF n = 1 THEN StepLines
    ELSE {t \o <<"\n">> \o l : t \in StepTexts(n - 1), l \in StepLines}

TypedSteps == UNION {StepTexts(n) : n \in 0..MaxLines}

\* the 'create' button of the create dialog; one project file is modelled, so
\* a name that is taken is the name of that file
create(typedName, typedSteps) ==
    LET name == strip(get(typedName))
    IN /\ CreateDialog \in wins
       /\ (file.exists /\ "\n" \notin Range(name)) => join(name) = file.text.name
       /\ IF "\n" \in Range(name) \/ file.exists
          THEN /\ op' = Op("create", FALSE, FALSE)
               /\ UNCHANGED <<file, wins>>
          ELSE /\ file' = [exists |-> TRUE,
                           text |-> Doc(join(name), create_steps(typedSteps), <<>>)]
               /\ wins' = {ListWindow}
               /\ op' = Op("create", TRUE, FALSE)
       /\ UNCHANGED <<data, mainWin, hist, frame>>

\* the 'create project' button of the project list
ClickCreate ==
    /\ ListWindow \in wins
    /\ wins' = {CreateDialog}
    /\ op' = Op("create_project", TRUE, FALSE)
    /\ UNCHANGED <<data, file, mainWin, hist, frame>>

\* the project's button of the project list: Project(name=name).display()
ClickProject ==
    /\ ListWindow \in wins
    /\ file.exists
    /\ wins' = {}
    /\ IF _check(load(file.text)) = "ok"
       THEN /\ data' = load(file.text)
            /\ mainWin' = TRUE
            /\ hist' = IF load(file.text).tasks = <<>> THEN 0 ELSE -1
            /\ op' = Op("open", TRUE, FALSE)
       ELSE /\ op' = Op("open", FALSE, FALSE)
            /\ UNCHANGED <<data, mainWin, hist>>
    /\ UNCHANGED <<file, frame>>

\* ---- creating a project and opening it: list_projects() with no project yet
InitCreate ==
    /\ file = [exists |-> FALSE, text |-> Garbage]
    /\ data = NoDoc
    /\ mainWin = FALSE
    /\ wins = {ListWindow}
    /\ op = Op("init", TRUE, FALSE)
    /\ hist = -1
    /\ frame = Idle

NextCreate ==
    \/ \E tn \in TypedNames, ts \in TypedSteps : create(tn, ts)
    \/ ClickCreate
    \/ ClickProject

SpecCreate == InitCreate /\ [][NextCreate]_vars

\* ================================================================ properties
MondayToFriday(o) == (o - 1) % 7 < 5

\* C7: distance_date(start, end) is -1 when the date of start is later than
\* the date of end, and otherwise the number of Monday-to-Friday dates d with
\* start < d <= end (0 when the dates are equal); Monday to Friday of one week
\* is 4 and Friday to the next Monday is 1.
C7_WorkingDaysBetween ==
    frame.fn = "distance_date" =>
        /\ frame.ret =
              IF frame.start.ord > frame.end.ord THEN -1
              ELSE Cardinality({o \in (frame.start.ord + 1)..frame.end.ord :
                                   MondayToFriday(o)})
        /\ frame.start.ord = frame.end.ord => frame.ret = 0
        /\ frame.start.ord = 1 /\ frame.end.ord = 5 => frame.ret = 4
        /\ frame.start.ord = 5 /\ frame.end.ord = 8 => frame.ret = 1

\* Friday afternoon to the next Monday: one working day
C7_Witness ==
    /\ frame.fn = "distance_date"
    /\ frame.start = DateTime(5, 1) /\ frame.end = DateTime(8, 0)
    /\ frame.ret = 1

\* C8: list_date(n) returns exactly n entries, all distinct, all Monday to
\* Friday, in strictly increasing date order.
C8_ListDateClaim ==
    frame.fn = "list_date" =>
        /\ Len(frame.ret) = frame.size
        /\ \A j \in 1..Len(frame.ret) :
              frame.ret[j].valid /\ MondayToFriday(frame.ret[j].ord)
        /\ \A j \in 1..(Len(frame.ret) - 1) : frame.ret[j].ord < frame.ret[j + 1].ord

\* C9: encode_color on a task whose deadline does not parse does not fail and
\* returns the background colour of the task's level as the border colour.
C9_ClassifyClaim ==
    (/\ frame.fn = "encode_color"
     /\ frame.task.level \in Range(LEVELS)
     /\ ~frame.task.deadline.valid) =>
        /\ frame.ret.exc = "none"
        /\ frame.ret.border = frame.ret.background
        /\ frame.ret.background = rule(frame.task.level)

\* C1: after task-dialog operations on a document that passes _check the
\* in-memory document still passes _check; every title and text is non-empty.
C1_StaysValid ==
    /\ _check(data) = "ok"
    /\ \A j \in 1..Len(data.tasks) :
          data.tasks[j].t.title # <<>> /\ data.tasks[j].t.text # <<>>

ClosesText == {"close_raw", "close_tmp"}
Invalid(text) == ~text.parses \/ _check(loads(text)) # "ok"

\* C2 as stated: when a text view is closed on a text that fails to parse or
\* fails _check, the document afterwards is the document of the moment the
\* view was opened.
C2_RejectRestoresOpened ==
    [][\A w \in wins :
          (w.kind = "text" /\ w \notin wins' /\ op'.name \in ClosesText
              /\ Invalid(op'.arg)) => data' = w.opened]_vars

\* C2 amended: when a text view is closed on a text that fails to parse or
\* fails _check, the close leaves the in-memory document as it was just
\* before the close.
C2_RejectKeepsData ==
    [][(op'.name \in ClosesText /\ Invalid(op'.arg)) => data' = data]_vars

\* a view over a board with a task was closed on an invalid text
C2_Witness ==
    /\ op.name \in ClosesText /\ Invalid(op.arg) /\ ~op.ok
    /\ op.arg.parses
    /\ data.tasks # <<>>

\* the handlers after which in-memory changes are gone: the main window is
\* closed, a 'raw' view replaces the document, the delete dialog ends the session
Discards ==
    \/ op'.name = "close_main" /\ op'.ok
    \/ op'.name = "close_raw" /\ op'.ok
    \/ op'.name \in {"delete_project", "close_delete"} /\ op'.ok
          /\ ~mainWin' /\ wins' = {}

\* C3: an operation that drops or replaces the in-memory document while it
\* differs from the project file makes the isDirty comparison first.
C3_DirtyCheckBeforeDiscard ==
    [][(Discards /\ isDirty) => op'.checked]_vars

\* C10: every key of the in-memory task map is an integer.
C10_IntKeys == \A k \in Keys(data.tasks) : k.kind = "int"

\* the transitions an edit dialog offers: the button and the step it stores
Offered(w) == {<<b.label, step_to_be(data.steps, b.i)>> : b \in w.btns}

\* the transitions claimed for a task at the 0-based position i of steps
ClaimedAt(steps, i) ==
    {<<"update", steps[i + 1]>>}
    \cup (IF i > 0 THEN {<<"back", steps[i]>>} ELSE {})
    \cup {<<"forward", IF i = Len(steps) - 1 THEN "hidden" ELSE steps[i + 2]>>}

ClaimedHidden(steps) == {<<"unhide", steps[1]>>}

\* the edit dialogs open on an existing task
TaskDialogs == {w \in wins : w.kind = "edit" /\ w.idx.v >= 0}
StepOf(w) == Get(data.tasks, w.idx).step
FirstPosition(steps, x) ==
    CHOOSE i \in 0..(Len(steps) - 1) :
        steps[i + 1] = x /\ \A j \in 0..(i - 1) : steps[j + 1] # x

IntKeysOf(tasks) == {k.v : k \in Keys(tasks)}

\* C5: a successful add stores the new task under max(existing ids) + 1, or 0
\* on an empty map; that id was not in the map and no other entry changes;
\* from an empty document the k-th add gets id k - 1.
C5_AddTakesNextId ==
    /\ [](hist >= 0 => Keys(data.tasks) = {IntKey(n) : n \in 0..(hist - 1)})
    /\ [][(op'.name = "add" /\ op'.ok) =>
            LET new == IF data.tasks = <<>> THEN IntKey(0)
                       ELSE IntKey(Max(IntKeysOf(data.tasks)) + 1)
            IN /\ new \notin Keys(data.tasks)
               /\ Keys(data'.tasks) = Keys(data.tasks) \cup {new}
               /\ \A k \in Keys(data.tasks) :
                     Get(data'.tasks, k) = Get(data.tasks, k)]_vars

\* the second add on a new project
C5_Witness ==
    /\ op.name = "add" /\ op.ok
    /\ hist = 2
    /\ Keys(data.tasks) = {IntKey(0), IntKey(1)}

Changed == {k \in Keys(data.tasks) \cap Keys(data'.tasks) :
               Get(data'.tasks, k) # Get(data.tasks, k)}

\* C6: a task operation never removes an id, changes or adds the record of at
\* most one id, and leaves the name and the steps as they were.
C6_TasksNeverDeleted ==
    [][/\ Keys(data.tasks) \subseteq Keys(data'.tasks)
       /\ Len(data'.tasks) = Cardinality(Keys(data'.tasks))
       /\ Cardinality(Changed \cup (Keys(data'.tasks) \ Keys(data.tasks))) <= 1
       /\ data'.name = data.name
       /\ data'.steps = data.steps]_vars

\* a task was moved or updated on a board with another task
C6_Witness ==
    /\ op.name \in {"update", "back", "forward", "unhide"} /\ op.ok
    /\ Len(data.tasks) >= 2

\* the step the forward button of a task's dialog stores; a task without a
\* forward button stays where it is
ForwardOf(steps, step) ==
    LET bs == {b \in Buttons(steps, step) : b.label = "forward"}
    IN IF bs = {} THEN step ELSE step_to_be(steps, (CHOOSE b \in bs : TRUE).i)

RECURSIVE ForwardTimes(_, _, _)
ForwardTimes(steps, step, n) ==
    IF n = 0 THEN step ELSE ForwardTimes(steps, ForwardOf(steps, step), n - 1)

\* C11: for every steps sequence that passes _check, repeated names included,
\* a task at a non-hidden step is at "hidden" after at most len(steps) moves
\* forward.
C11_ForwardReachesHidden ==
    \A t \in Tasks(data) :
        t.step # KEY_HIDDEN =>
            ForwardTimes(data.steps, t.step, Len(data.steps)) = KEY_HIDDEN

\* C12: every project file that create() writes loads: it passes _check, with
\* a non-empty name, non-empty steps and an empty task map.
C12_CreatedFileLoads ==
    file.exists =>
        /\ _check(load(file.text)) = "ok"
        /\ file.text.name # "" /\ file.text.steps # <<>>
        /\ file.text.tasks = <<>>

====
